---- MODULE Spec2Model ----
(***************************************************************************)
(* Booking, payment reconciliation and review gating of the jeep booking   *)
(* backend (src/routes/bookings.js, src/routes/admin.js,                   *)
(* src/routes/reviews.js and the payments router src/unnamed/part_002).    *)
(*                                                                         *)
(* The persistent store is the state; every HTTP handler is one action,    *)
(* except admin approve, whose read, save and re-read are separate store   *)
(* operations and therefore separate steps.  Money is kept in tenths of a  *)
(* currency unit so that the tier prices (9.8, 19.9, ...) and the half     *)
(* price of a child stay integers; floating point rounding is not          *)
(* modelled.                                                               *)
(***************************************************************************)
EXTENDS Integers, Sequences, FiniteSets, TLC

\* ------------------------------------------------------------------ bounds

\* Largest number of bookings ever created in one behaviour of Spec.
MaxBookings == 2
\* Largest number of reviews ever stored in one behaviour.
MaxReviews == 1
\* Largest adults / children count a request of the pricing runs carries.
MaxAdults == 51
MaxChildren == 1

\* --------------------------------------------------------- JSON / JS values

\* An absent string-valued field; interpolation renders it "undefined".
NoStr == "<undefined>"
\* An absent value, a number, of a JSON body.
Undef == [t |-> "undefined"]
Num(n) == [t |-> "number", v |-> n]

\* JavaScript falsiness of a number-or-absent value (!x).
Falsy(x) == x = Undef \/ x.v = 0
\* x || d
OrElse(x, d) == IF Falsy(x) THEN d ELSE x
\* x || d for a string-or-absent value.
StrOr(x, d) == IF x = NoStr \/ x = "" THEN d ELSE x
\* Number(x) of a present number.
Number(x) == x.v
\* `${x}` for a string-or-absent value.
Str(x) == IF x = NoStr THEN "undefined" ELSE x

\* ------------------------------------------------------------- identities

Tourists == {"t1", "t2"}
ProviderIds == {"p1", "p2"}
\* The id of the provider account that signs up during a run.
NewProviderId == "p3"
AccountIds == Tourists \cup ProviderIds \cup {NewProviderId}
AdminId == "a1"
IdNames == <<"b1", "b2", "b3", "b4", "b5">>
BookingIds == {IdNames[i] : i \in 1..MaxBookings}
\* The id of the i-th stored review.
ReviewIdNames == <<"r1", "r2", "r3">>
ReviewIds == {ReviewIdNames[i] : i \in 1..MaxReviews}
\* A well-formed id that names no stored document, and a malformed one.
GhostId == "b0"
MalformedId == "zz"

\* mongoose.Types.ObjectId.isValid
IsValidObjectId(id) ==
  id \in BookingIds \cup ReviewIds \cup AccountIds \cup {AdminId, GhostId}

\* The provider documents: base price in tenths, and the approval flag each
\* is first stored with (a signup stores approved: false).
providers == [p \in ProviderIds \cup {NewProviderId} |->
                IF p = "p1" THEN [price |-> 380, approved |-> TRUE]
                ELSE IF p = "p2" THEN [price |-> 450, approved |-> FALSE]
                ELSE [price |-> 300, approved |-> FALSE]]

NoRef == "<none>"

VARIABLES
  bookings,    \* the Booking collection: stored id -> document
  nextId,      \* index of the next booking id to hand out
  created,     \* history: id -> totalPrice the document was created with
  contacts,    \* number of stored contact submissions
  reviews,     \* the Review collection: sequence of documents
  approve,     \* the admin approve request in flight
  users,       \* the Tourist and Provider collections: id -> state, approved?
  last         \* the last request served and its response

vars == <<bookings, nextId, created, contacts, reviews, approve, users, last>>

Stored == DOMAIN bookings

\* Tourist.findById(t) / Provider.findById(p) finds a document.
\* An account is "absent" before it signs up, "stored", or "deleted".
TouristFound(t) == t \in Tourists /\ users[t].state = "stored"
ProviderFound(p) == p \in ProviderIds \cup {NewProviderId} /\ users[p].state = "stored"

Idle == [pc |-> "idle"]

\* The log of one served request: the operation, the caller, the request body,
\* the booking id it named or created, the HTTP status (0: no response was
\* sent), the status the handler's read or update found the booking in, the
\* status the store held when approve saved, whether the store operation went
\* through, and the bookings or payment data the response carries.
Reply(op, user, req, id, code) ==
  [op |-> op, user |-> user, req |-> req, id |-> id, code |-> code,
   found |-> "<none>", atSave |-> "<none>", dbOk |-> TRUE, body |-> {}]

Init ==
  /\ bookings = << >>
  /\ nextId = 1
  /\ created = << >>
  /\ contacts = 0
  /\ reviews = << >>
  /\ approve = Idle
  /\ users = [a \in AccountIds |->
                [state |-> IF a = NewProviderId THEN "absent" ELSE "stored",
                 approved |-> a \notin Tourists /\ providers[a].approved]]
  /\ last = Reply("none", NoRef, Undef, NoRef, 0)

\* ------------------------------------------------------------------ pricing

\* provider.price * (adults + 0.5 * children), in tenths.
ProviderPrice(price, adults, children) == (price * (2 * adults + children)) \div 2

\* PRICING_STRUCTURE: product -> tiers [min, max, price in tenths]; max = 0
\* stands for Infinity; an empty table for null.
Tier(lo, hi, p) == [min |-> lo, max |-> hi, price |-> p]
PricedProducts == {"Jeep Safari", "Catamaran Boat Ride", "Village Cooking Experience",
                   "Bullock Cart Ride", "Village Tour", "Traditional Village Lunch"}
UnpricedProducts == {"Sundowners Cocktail", "High Tea", "Tuk Tuk Adventures"}
\* The static product catalog served by GET /api/products (names only).
companyProducts ==
  {"Jeep Safari", "Tuk Tuk Adventures", "Catamaran Boat Ride",
   "Village Cooking Experience", "Traditional Village Lunch", "Sundowners Cocktail",
   "High Tea", "Bullock Cart Ride", "Budget Village Tour", "Village Tour"}

PRICING_STRUCTURE(product) ==
  CASE product = "Jeep Safari" ->
         <<Tier(1, 3, 380), Tier(4, 5, 300), Tier(6, 10, 200), Tier(11, 20, 150)>>
    [] product = "Catamaran Boat Ride" ->
         <<Tier(1, 1, 98), Tier(2, 0, 70)>>
    [] product = "Village Cooking Experience" ->
         <<Tier(1, 5, 150), Tier(6, 10, 130), Tier(11, 20, 110), Tier(21, 50, 100)>>
    [] product = "Bullock Cart Ride" ->
         <<Tier(1, 5, 99), Tier(6, 20, 50), Tier(21, 50, 40)>>
    [] product = "Village Tour" ->
         <<Tier(1, 5, 199), Tier(6, 10, 182), Tier(11, 20, 173), Tier(21, 30, 163),
           Tier(31, 50, 150)>>
    [] product = "Traditional Village Lunch" ->
         <<Tier(1, 0, 150)>>
    [] OTHER -> << >>

\* Mutant: the lower end of a tier is excluded.
InTierOpen(tier, n) == n > tier.min /\ (tier.max = 0 \/ n <= tier.max)

\* totalPersons >= tier.min && totalPersons <= tier.max
InTier(tier, n) == n >= tier.min /\ (tier.max = 0 \/ n <= tier.max)

\* pricing.find(...): the index of the first tier that holds n, 0 for none.
FindTier(pricing, n) ==
  IF \E i \in 1..Len(pricing) : InTier(pricing[i], n)
  THEN CHOOSE i \in 1..Len(pricing) :
         /\ InTier(pricing[i], n)
         /\ \A j \in 1..(i - 1) : ~InTier(pricing[j], n)
  ELSE 0

\* ------------------------------------------------------------ the store

\* Mutant: every document is stored as confirmed.
InsertConfirmed(doc) ==
  /\ nextId <= MaxBookings
  /\ bookings' = (IdNames[nextId] :> [doc EXCEPT !.status = "confirmed"]) @@ bookings
  /\ created' = (IdNames[nextId] :> doc.totalPrice) @@ created
  /\ nextId' = nextId + 1

\* Mutant: a new booking cancels the tourist's earlier ones.
InsertSuperseding(doc) ==
  /\ nextId <= MaxBookings
  /\ bookings' = (IdNames[nextId] :> doc) @@
                 [b \in Stored |->
                    IF bookings[b].touristId = doc.touristId
                    THEN [bookings[b] EXCEPT !.status = "cancelled"]
                    ELSE bookings[b]]
  /\ created' = (IdNames[nextId] :> doc.totalPrice) @@ created
  /\ nextId' = nextId + 1

\* Booking.create: the document gets a fresh id.
Insert(doc) ==
  /\ nextId <= MaxBookings
  /\ bookings' = (IdNames[nextId] :> doc) @@ bookings
  /\ created' = (IdNames[nextId] :> doc.totalPrice) @@ created
  /\ nextId' = nextId + 1

BookingDoc(tourist, provider, product, adults, children, price, status, contact) ==
  [touristId |-> tourist, providerId |-> provider, productType |-> product,
   adults |-> adults, children |-> children, totalPrice |-> price,
   status |-> status, contactId |-> contact]

\* !contact || !contact.name || !contact.email || !contact.message || !contact.phone
ContactMissing(contact) ==
  \/ contact = Undef
  \/ contact.name = NoStr \/ contact.email = NoStr
  \/ contact.message = NoStr \/ contact.phone = NoStr

\* --------------------------------------------- booking creation (tourist)

\* POST /api/bookings: provider-based booking by a tourist.
CreateBooking(user, body) ==
  /\ UNCHANGED <<reviews, approve, users>>
  /\ IF user.role # "tourist"
     THEN /\ last' = Reply("create", user, body, NoRef, 403)
          /\ UNCHANGED <<bookings, nextId, created, contacts>>
     ELSE IF \/ body.providerId = NoStr \/ body.date = NoStr \/ body.time = NoStr
             \/ Falsy(body.adults) \/ ContactMissing(body.contact)
     THEN /\ last' = Reply("create", user, body, NoRef, 400)
          /\ UNCHANGED <<bookings, nextId, created, contacts>>
     ELSE IF ~IsValidObjectId(body.providerId)
     THEN /\ last' = Reply("create", user, body, NoRef, 400)
          /\ UNCHANGED <<bookings, nextId, created, contacts>>
     ELSE IF \/ ~ProviderFound(body.providerId)
             \/ ~users[body.providerId].approved
     THEN /\ last' = Reply("create", user, body, NoRef, 404)
          /\ UNCHANGED <<bookings, nextId, created, contacts>>
     ELSE /\ contacts' = contacts + 1
          /\ Insert(BookingDoc(user.id, body.providerId, NoStr,
                               Number(body.adults),
                               Number(OrElse(body.children, Num(0))),
                               ProviderPrice(providers[body.providerId].price,
                                             Number(body.adults),
                                             Number(OrElse(body.children, Num(0)))),
                               "pending", contacts + 1))
          /\ last' = Reply("create", user, body, IdNames[nextId], 200)

\* parseInt(x) || d
ParseIntOr(x, d) == IF x = Undef \/ x.v = 0 THEN d ELSE x.v

\* provider.price * adults + provider.price * 0.5 * children, in tenths.
ProviderPriceV1(price, adults, children) == price * adults + (price * children) \div 2

\* POST /api/bookings of the earlier bookings router: the provider need not be
\* approved, adults defaults to 1, and date and time are left to the schema.
CreateBookingV1(user, body) ==
  /\ UNCHANGED <<reviews, approve, users>>
  /\ IF user.role # "tourist"
     THEN /\ last' = Reply("createV1", user, body, NoRef, 403)
          /\ UNCHANGED <<bookings, nextId, created, contacts>>
     ELSE IF ~IsValidObjectId(body.providerId)
     THEN /\ last' = Reply("createV1", user, body, NoRef, 400)
          /\ UNCHANGED <<bookings, nextId, created, contacts>>
     ELSE IF ContactMissing(body.contact)
     THEN /\ last' = Reply("createV1", user, body, NoRef, 400)
          /\ UNCHANGED <<bookings, nextId, created, contacts>>
     ELSE IF ~ProviderFound(body.providerId)
     THEN /\ last' = Reply("createV1", user, body, NoRef, 404)
          /\ UNCHANGED <<bookings, nextId, created, contacts>>
     ELSE IF body.date = NoStr \/ body.time = NoStr
     THEN \* the contact is saved, then Booking.create fails validation
          /\ contacts <= MaxBookings
          /\ contacts' = contacts + 1
          /\ last' = Reply("createV1", user, body, NoRef, 500)
          /\ UNCHANGED <<bookings, nextId, created>>
     ELSE /\ contacts' = contacts + 1
          /\ Insert(BookingDoc(user.id, body.providerId, NoStr,
                               ParseIntOr(body.adults, 1),
                               ParseIntOr(body.children, 0),
                               ProviderPriceV1(providers[body.providerId].price,
                                               ParseIntOr(body.adults, 1),
                                               ParseIntOr(body.children, 0)),
                               "pending", contacts + 1))
          /\ last' = Reply("createV1", user, body, IdNames[nextId], 200)

\* POST /api/bookings of the debugging variant of the bookings router: the
\* role check is commented out, the provider need not be approved, no contact
\* is taken, and the counts go through parseInt (NaN when absent, which
\* Booking.create rejects).
CreateBookingV2(user, body) ==
  /\ UNCHANGED <<reviews, approve, contacts, users>>
  /\ IF ~IsValidObjectId(body.providerId)
     THEN /\ last' = Reply("createV2", user, body, NoRef, 400)
          /\ UNCHANGED <<bookings, nextId, created>>
     ELSE IF ~ProviderFound(body.providerId)
     THEN /\ last' = Reply("createV2", user, body, NoRef, 404)
          /\ UNCHANGED <<bookings, nextId, created>>
     ELSE IF body.adults = Undef \/ body.date = NoStr \/ body.time = NoStr
     THEN /\ last' = Reply("createV2", user, body, NoRef, 500)
          /\ UNCHANGED <<bookings, nextId, created>>
     ELSE /\ Insert(BookingDoc(user.id, body.providerId, NoStr,
                               Number(body.adults),
                               Number(OrElse(body.children, Num(0))),
                               ProviderPrice(providers[body.providerId].price,
                                             Number(body.adults),
                                             Number(OrElse(body.children, Num(0)))),
                               "pending", NoRef))
          /\ last' = Reply("createV2", user, body, IdNames[nextId], 200)

\* POST /api/bookings/product: curated-product booking by a tourist, priced by
\* the caller.
CreateProductBooking(user, body) ==
  /\ UNCHANGED <<reviews, approve, users>>
  /\ IF user.role # "tourist"
     THEN /\ last' = Reply("createProduct", user, body, NoRef, 403)
          /\ UNCHANGED <<bookings, nextId, created, contacts>>
     ELSE IF \/ body.productType = NoStr \/ body.date = NoStr \/ body.time = NoStr
             \/ Falsy(body.adults) \/ Falsy(body.totalPrice)
             \/ ContactMissing(body.contact)
     THEN /\ last' = Reply("createProduct", user, body, NoRef, 400)
          /\ UNCHANGED <<bookings, nextId, created, contacts>>
     ELSE /\ contacts' = contacts + 1
          /\ Insert(BookingDoc(user.id, NoStr, body.productType,
                               Number(body.adults),
                               Number(OrElse(body.children, Num(0))),
                               Number(body.totalPrice),
                               "pending", contacts + 1))
          /\ last' = Reply("createProduct", user, body, IdNames[nextId], 200)

\* ----------------------------------------------- booking creation (admin)

\* The status enum of the Booking schema.
StatusEnum == {"pending", "confirmed", "cancelled"}

\* POST /api/admin/bookings/admin: booking added by an admin, priced from the
\* provider's base price or from the tier table.
AdminAddBooking(user, body) ==
  /\ UNCHANGED <<reviews, approve, contacts, users>>
  /\ IF user.role # "admin"
     THEN /\ last' = Reply("adminAdd", user, body, NoRef, 403)
          /\ UNCHANGED <<bookings, nextId, created>>
     ELSE IF \/ body.touristId = NoStr \/ body.date = NoStr \/ body.time = NoStr
             \/ Falsy(body.adults)
     THEN /\ last' = Reply("adminAdd", user, body, NoRef, 400)
          /\ UNCHANGED <<bookings, nextId, created>>
     ELSE IF body.providerId # NoStr /\ body.productType # NoStr
     THEN /\ last' = Reply("adminAdd", user, body, NoRef, 400)
          /\ UNCHANGED <<bookings, nextId, created>>
     ELSE IF body.providerId # NoStr /\ ~IsValidObjectId(body.providerId)
     THEN /\ last' = Reply("adminAdd", user, body, NoRef, 400)
          /\ UNCHANGED <<bookings, nextId, created>>
     ELSE IF ~IsValidObjectId(body.touristId)
     THEN /\ last' = Reply("adminAdd", user, body, NoRef, 400)
          /\ UNCHANGED <<bookings, nextId, created>>
     ELSE IF ~TouristFound(body.touristId)
     THEN /\ last' = Reply("adminAdd", user, body, NoRef, 404)
          /\ UNCHANGED <<bookings, nextId, created>>
     ELSE IF body.providerId # NoStr
     THEN IF ~ProviderFound(body.providerId)
          THEN /\ last' = Reply("adminAdd", user, body, NoRef, 404)
               /\ UNCHANGED <<bookings, nextId, created>>
          ELSE IF StrOr(body.status, "pending") \notin StatusEnum
          THEN /\ last' = Reply("adminAdd", user, body, NoRef, 500)
               /\ UNCHANGED <<bookings, nextId, created>>
          ELSE /\ Insert(BookingDoc(body.touristId, body.providerId, NoStr,
                                    Number(body.adults),
                                    Number(OrElse(body.children, Num(0))),
                                    ProviderPrice(providers[body.providerId].price,
                                                  Number(body.adults),
                                                  Number(OrElse(body.children, Num(0)))),
                                    StrOr(body.status, "pending"), NoRef))
               /\ last' = Reply("adminAdd", user, body, IdNames[nextId], 200)
     ELSE IF body.productType # NoStr
     THEN LET pricing == PRICING_STRUCTURE(body.productType)
              totalPersons == Number(body.adults) + Number(OrElse(body.children, Num(0)))
              tier == FindTier(pricing, totalPersons)
          IN  IF pricing = << >>
              THEN /\ last' = Reply("adminAdd", user, body, NoRef, 400)
                   /\ UNCHANGED <<bookings, nextId, created>>
              ELSE IF tier = 0
              THEN /\ last' = Reply("adminAdd", user, body, NoRef, 400)
                   /\ UNCHANGED <<bookings, nextId, created>>
              ELSE IF StrOr(body.status, "pending") \notin StatusEnum
              THEN /\ last' = Reply("adminAdd", user, body, NoRef, 500)
                   /\ UNCHANGED <<bookings, nextId, created>>
              ELSE /\ Insert(BookingDoc(body.touristId, NoStr, body.productType,
                                        Number(body.adults),
                                        Number(OrElse(body.children, Num(0))),
                                        totalPersons * pricing[tier].price,
                                        StrOr(body.status, "pending"), NoRef))
                   /\ last' = Reply("adminAdd", user, body, IdNames[nextId], 200)
     ELSE \* neither reference: the schema rejects the document
          /\ last' = Reply("adminAdd", user, body, NoRef, 500)
          /\ UNCHANGED <<bookings, nextId, created>>

\* Mutant: the product label is stored whenever the request carries one.
StoredProductAlways(body) == body.productType

\* if (providerId) { ... } else if (productType) { bookingData.productType = ... }
StoredProduct(body) == IF body.providerId # NoStr THEN NoStr ELSE body.productType

\* contact && contact.name && contact.email && contact.message
ContactGiven(contact) ==
  /\ contact # Undef
  /\ contact.name # NoStr /\ contact.email # NoStr /\ contact.message # NoStr

\* POST /api/bookings/admin: booking created by an admin with the status the
\* request carries; the price is converted with the fixed multiplier 300.  The
\* contact is stored before the provider is looked up.
AdminCreateBooking(user, body) ==
  /\ UNCHANGED <<reviews, approve, users>>
  /\ IF user.role # "admin"
     THEN /\ last' = Reply("adminCreate", user, body, NoRef, 403)
          /\ UNCHANGED <<bookings, nextId, created, contacts>>
     ELSE IF \/ body.touristId = NoStr \/ body.date = NoStr \/ body.time = NoStr
             \/ Falsy(body.adults)
             \/ (body.providerId = NoStr /\ body.productType = NoStr)
     THEN /\ last' = Reply("adminCreate", user, body, NoRef, 400)
          /\ UNCHANGED <<bookings, nextId, created, contacts>>
     ELSE IF body.providerId # NoStr /\ ~IsValidObjectId(body.providerId)
     THEN /\ last' = Reply("adminCreate", user, body, NoRef, 400)
          /\ UNCHANGED <<bookings, nextId, created, contacts>>
     ELSE IF ~IsValidObjectId(body.touristId)
     THEN /\ last' = Reply("adminCreate", user, body, NoRef, 400)
          /\ UNCHANGED <<bookings, nextId, created, contacts>>
     ELSE IF ~TouristFound(body.touristId)
     THEN /\ last' = Reply("adminCreate", user, body, NoRef, 404)
          /\ UNCHANGED <<bookings, nextId, created, contacts>>
     ELSE LET given == ContactGiven(body.contact)
              contactId == IF given THEN contacts + 1 ELSE NoRef
              status == StrOr(body.status, "pending")
              adults == Number(body.adults)
              children == Number(OrElse(body.children, Num(0)))
          IN  /\ contacts' = IF given THEN contacts + 1 ELSE contacts
              /\ IF /\ body.providerId # NoStr
                    /\ \/ ~ProviderFound(body.providerId)
                       \/ ~users[body.providerId].approved
                 THEN /\ contacts <= MaxBookings
                      /\ last' = Reply("adminCreate", user, body, NoRef, 404)
                      /\ UNCHANGED <<bookings, nextId, created>>
                 ELSE IF \/ status \notin StatusEnum
                         \/ (body.providerId = NoStr /\ body.totalPrice = Undef)
                 THEN \* Booking.create rejects the enum value or the NaN price
                      /\ contacts <= MaxBookings
                      /\ last' = Reply("adminCreate", user, body, NoRef, 500)
                      /\ UNCHANGED <<bookings, nextId, created>>
                 ELSE /\ Insert(BookingDoc(
                           body.touristId,
                           body.providerId,
                           StoredProduct(body),
                           adults, children,
                           IF body.providerId # NoStr /\ Falsy(body.totalPrice)
                           THEN ProviderPrice(providers[body.providerId].price,
                                              adults, children) * 300
                           ELSE Number(body.totalPrice) * 300,
                           status, contactId))
                      /\ last' = Reply("adminCreate", user, body, IdNames[nextId], 200)

\* ------------------------------------------------------ booking lifecycle

\* The response of a request whose store operation was logged.
ReplyFound(op, user, req, id, code, found, dbOk) ==
  [Reply(op, user, req, id, code) EXCEPT !.found = found, !.dbOk = dbOk]

\* What a store operation finds under an id.
StatusOf(id) == IF id \in Stored THEN bookings[id].status ELSE "<none>"

\* Mutant: the update is not filtered by id.
SetConfirmedAll(id) ==
  bookings' = [b \in Stored |-> [bookings[b] EXCEPT !.status = "confirmed"]]

\* Mutant: the update flips the status instead of setting it.
SetConfirmedToggle(id) ==
  bookings' = IF id \in Stored
              THEN [bookings EXCEPT ![id].status =
                      IF @ = "confirmed" THEN "pending" ELSE "confirmed"]
              ELSE bookings

\* Mutant: the update also converts the stored price to local currency.
SetConfirmedRepriced(id) ==
  bookings' = IF id \in Stored
              THEN [bookings EXCEPT ![id].status = "confirmed",
                                    ![id].totalPrice = @ * 300]
              ELSE bookings

\* Mutant: the update is an upsert.
SetConfirmedUpsert(id) ==
  bookings' = IF id \in Stored
              THEN [bookings EXCEPT ![id].status = "confirmed"]
              ELSE (id :> BookingDoc(NoStr, NoStr, NoStr, 0, 0, 0, "confirmed", NoRef))
                   @@ bookings

\* Booking.findByIdAndUpdate(id, { status: 'confirmed' }): only the status
\* path is written, and only when the document is stored.
SetConfirmed(id) ==
  bookings' = IF id \in Stored
              THEN [bookings EXCEPT ![id].status = "confirmed"]
              ELSE bookings

\* booking.status = 'confirmed'; booking.save(): the document tracks its
\* changes, so a document that was read as confirmed sends no update.
SaveConfirmed(id, seen) ==
  IF seen = "confirmed" THEN UNCHANGED bookings ELSE SetConfirmed(id)

\* PUT /api/bookings/admin/:id/approve, up to and including
\* Booking.findById(req.params.id).
ApproveRead(user, id) ==
  /\ approve.pc = "idle"
  /\ UNCHANGED <<bookings, nextId, created, contacts, reviews, users>>
  /\ IF user.role # "admin"
     THEN /\ last' = Reply("approve", user, Undef, id, 403)
          /\ UNCHANGED approve
     ELSE IF ~IsValidObjectId(id)
     THEN /\ last' = Reply("approve", user, Undef, id, 400)
          /\ UNCHANGED approve
     ELSE IF id \notin Stored
     THEN /\ last' = Reply("approve", user, Undef, id, 404)
          /\ UNCHANGED approve
     ELSE /\ approve' = [pc |-> "loaded", user |-> user, id |-> id,
                         seen |-> bookings[id].status, atSave |-> "<none>"]
          /\ UNCHANGED last

\* Mutant: the save is refused when the stored document changed since the read.
ApproveSaveVersioned(dbOk) ==
  /\ approve.pc = "loaded"
  /\ UNCHANGED <<nextId, created, contacts, reviews, users>>
  /\ IF approve.id \notin Stored \/ ~dbOk \/ StatusOf(approve.id) # approve.seen
     THEN /\ last' = [ReplyFound("approve", approve.user, Undef, approve.id, 500,
                                 approve.seen, dbOk)
                        EXCEPT !.atSave = StatusOf(approve.id)]
          /\ approve' = Idle
          /\ UNCHANGED bookings
     ELSE /\ SaveConfirmed(approve.id, approve.seen)
          /\ approve' = [approve EXCEPT !.pc = "saved", !.atSave = StatusOf(approve.id)]
          /\ UNCHANGED last

\* Mutant: the save writes the whole document back, stored or not.
ApproveSaveReinsert(dbOk) ==
  /\ approve.pc = "loaded"
  /\ UNCHANGED <<nextId, created, contacts, reviews, users, last>>
  /\ bookings' = IF approve.id \in Stored
                 THEN [bookings EXCEPT ![approve.id].status = "confirmed"]
                 ELSE (approve.id :> BookingDoc("t1", "p1", NoStr, 1, 0, created[approve.id],
                                                "confirmed", NoRef)) @@ bookings
  /\ approve' = [approve EXCEPT !.pc = "saved", !.atSave = StatusOf(approve.id)]

\* booking.status = 'confirmed'; await booking.save().  The save of a document
\* that is no longer stored, or a store failure, throws into the handler's catch.
ApproveSave(dbOk) ==
  /\ approve.pc = "loaded"
  /\ UNCHANGED <<nextId, created, contacts, reviews, users>>
  /\ IF approve.id \notin Stored \/ ~dbOk
     THEN /\ last' = [ReplyFound("approve", approve.user, Undef, approve.id, 500,
                                 approve.seen, dbOk)
                        EXCEPT !.atSave = StatusOf(approve.id)]
          /\ approve' = Idle
          /\ UNCHANGED bookings
     ELSE /\ SaveConfirmed(approve.id, approve.seen)
          /\ approve' = [approve EXCEPT !.pc = "saved", !.atSave = StatusOf(approve.id)]
          /\ UNCHANGED last

\* The re-read Booking.findById(booking._id)...lean() and res.json.
ApproveReply ==
  /\ approve.pc = "saved"
  /\ UNCHANGED <<bookings, nextId, created, contacts, reviews, users>>
  /\ last' = [ReplyFound("approve", approve.user, Undef, approve.id, 200,
                         approve.seen, TRUE)
                EXCEPT !.atSave = approve.atSave,
                       !.body = IF approve.id \in Stored
                                THEN {[id |-> approve.id,
                                       status |-> bookings[approve.id].status,
                                       totalPrice |-> bookings[approve.id].totalPrice]}
                                ELSE {}]
  /\ approve' = Idle

\* PUT /api/admin/bookings/admin/:id/approve: one findByIdAndUpdate.
AdminApprove(user, id, dbOk) ==
  /\ UNCHANGED <<nextId, created, contacts, reviews, approve, users>>
  /\ IF user.role # "admin"
     THEN /\ last' = Reply("adminApprove", user, Undef, id, 403)
          /\ UNCHANGED bookings
     ELSE IF ~IsValidObjectId(id)
     THEN /\ last' = Reply("adminApprove", user, Undef, id, 400)
          /\ UNCHANGED bookings
     ELSE IF ~dbOk
     THEN /\ last' = ReplyFound("adminApprove", user, Undef, id, 500, StatusOf(id), dbOk)
          /\ UNCHANGED bookings
     ELSE /\ SetConfirmed(id)
          /\ last' = ReplyFound("adminApprove", user, Undef, id,
                                IF id \in Stored THEN 200 ELSE 404, StatusOf(id), dbOk)

\* Mutant: the delete cascades to the reviews of the booking's tourist and to
\* the linked contact submission.
AdminDeleteCascade(user, id) ==
  /\ UNCHANGED <<nextId, created, approve, users>>
  /\ IF user.role # "admin" \/ id \notin Stored
     THEN /\ last' = Reply("delete", user, Undef, id, IF user.role # "admin" THEN 403 ELSE 404)
          /\ UNCHANGED <<bookings, contacts, reviews>>
     ELSE /\ bookings' = [b \in Stored \ {id} |-> bookings[b]]
          /\ reviews' = SelectSeq(reviews, LAMBDA r : r.reviewerId # bookings[id].touristId)
          /\ contacts' = IF contacts > 0 THEN contacts - 1 ELSE 0
          /\ last' = ReplyFound("delete", user, Undef, id, 200, bookings[id].status, TRUE)

\* DELETE /api/bookings/admin/:id
AdminDelete(user, id) ==
  /\ UNCHANGED <<nextId, created, contacts, reviews, approve, users>>
  /\ IF user.role # "admin"
     THEN /\ last' = Reply("delete", user, Undef, id, 403)
          /\ UNCHANGED bookings
     ELSE IF ~IsValidObjectId(id)
     THEN /\ last' = Reply("delete", user, Undef, id, 400)
          /\ UNCHANGED bookings
     ELSE IF id \notin Stored
     THEN /\ last' = Reply("delete", user, Undef, id, 404)
          /\ UNCHANGED bookings
     ELSE /\ bookings' = [b \in Stored \ {id} |-> bookings[b]]
          /\ last' = ReplyFound("delete", user, Undef, id, 200, bookings[id].status, TRUE)

\* GET /api/bookings/my-bookings
MyBookings(user) ==
  /\ UNCHANGED <<bookings, nextId, created, contacts, reviews, approve, users>>
  /\ IF user.role # "tourist"
     THEN last' = Reply("myBookings", user, Undef, NoRef, 403)
     ELSE IF ~IsValidObjectId(user.id)
     THEN last' = Reply("myBookings", user, Undef, NoRef, 400)
     ELSE IF ~TouristFound(user.id)
     THEN last' = Reply("myBookings", user, Undef, NoRef, 404)
     ELSE last' = [Reply("myBookings", user, Undef, NoRef, 200)
                     EXCEPT !.body = {[id |-> b, status |-> bookings[b].status,
                                       totalPrice |-> bookings[b].totalPrice] :
                                      b \in {x \in Stored : bookings[x].touristId = user.id}}]

\* ---------------------------------------------------------------- payments

\* env.PAYHERE_MERCHANT_ID, env.PAYHERE_MERCHANT_SECRET, env.PAYHERE_CURRENCY,
\* env.STRIPE_WEBHOOK_SECRET
MerchantId == "1227"
MerchantSecret == "s3"
Currency == "LKR"
WebhookSecret == "whsec"

\* crypto.createHash('md5').update(s).digest('hex'): a collision-free digest of
\* the text, in lower-case hex.
Md5Hex(s) == [md5 |-> s, upper |-> FALSE]
\* .toUpperCase()
ToUpperCase(h) == [h EXCEPT !.upper = TRUE]

\* `${merchant_id}${order_id}${amount}${currency}${status_code}${merchantSecret}`
NotifyHashString(body) ==
  Str(body.merchant_id) \o Str(body.order_id) \o Str(body.amount)
    \o Str(body.currency) \o Str(body.status_code) \o MerchantSecret

\* generatedSig of the notification handler.
GeneratedSig(body) == ToUpperCase(Md5Hex(NotifyHashString(body)))

\* Mutant: the signature is compared only when the notification carries one.
SignatureMismatchIfPresent(body) ==
  body.md5sig # Undef /\ GeneratedSig(body) # body.md5sig

\* Mutant: the signature is compared without regard to letter case.
SignatureMismatchCaseBlind(body) ==
  body.md5sig = Undef \/ GeneratedSig(body) # ToUpperCase(body.md5sig)

\* generatedSig !== md5sig
SignatureMismatch(body) == GeneratedSig(body) # body.md5sig

\* POST /api/payments/payhere-notification
PayhereNotification(body, dbOk) ==
  /\ UNCHANGED <<nextId, created, contacts, reviews, approve, users>>
  /\ IF SignatureMismatch(body)
     THEN /\ last' = ReplyFound("payhere", NoRef, body, Str(body.order_id), 400,
                                StatusOf(body.order_id), dbOk)
          /\ UNCHANGED bookings
     ELSE IF body.status_code = "2"
     THEN /\ IF IsValidObjectId(body.order_id) /\ dbOk
             THEN SetConfirmed(body.order_id)
             ELSE UNCHANGED bookings   \* the cast or store error is caught and logged
          /\ last' = ReplyFound("payhere", NoRef, body, Str(body.order_id), 200,
                                StatusOf(body.order_id), dbOk)
     ELSE /\ last' = ReplyFound("payhere", NoRef, body, Str(body.order_id), 200,
                                StatusOf(body.order_id), dbOk)
          /\ UNCHANGED bookings

\* The signature header Stripe computes over a payload with a signing secret.
StripeSign(payload, secret) == [over |-> payload, key |-> secret]

\* Mutant: the header is checked against the payload but not against the secret.
ConstructEventOkAnyKey(payload, sig) == sig # Undef /\ sig.over = payload

\* stripeInstance.webhooks.constructEvent(req.body, sig, secret) accepts the
\* payload exactly when the header signs it with the endpoint's secret.
ConstructEventOk(payload, sig) == sig = StripeSign(payload, WebhookSecret)

\* POST /api/payments/webhook.  The update is awaited outside any try block: a
\* cast or store error rejects the handler's promise, and the request is left
\* without a response or answered 500 by the framework, according to its version.
StripeWebhook(req, dbOk) ==
  /\ UNCHANGED <<nextId, created, contacts, reviews, approve, users>>
  /\ IF ~ConstructEventOk(req.event, req.sig)
     THEN /\ last' = ReplyFound("webhook", NoRef, req, req.event.bookingId, 400,
                                StatusOf(req.event.bookingId), dbOk)
          /\ UNCHANGED bookings
     ELSE IF req.event.type = "payment_intent.succeeded"
     THEN IF IsValidObjectId(req.event.bookingId) /\ dbOk
          THEN /\ SetConfirmed(req.event.bookingId)
               /\ last' = ReplyFound("webhook", NoRef, req, req.event.bookingId, 200,
                                     StatusOf(req.event.bookingId), dbOk)
          ELSE /\ UNCHANGED bookings
               /\ \E code \in {0, 500} :
                    last' = ReplyFound("webhook", NoRef, req, req.event.bookingId, code,
                                       StatusOf(req.event.bookingId), dbOk)
     ELSE /\ last' = ReplyFound("webhook", NoRef, req, req.event.bookingId, 200,
                                StatusOf(req.event.bookingId), dbOk)
          /\ UNCHANGED bookings

\* booking.totalPrice.toFixed(2) of an amount kept in tenths.
ToFixed2(tenths) == ToString(tenths \div 10) \o "." \o ToString(tenths % 10) \o "0"

\* `${merchantId}${orderId}${amount}${currency}${merchantSecret}` hashed for the
\* hosted payment page.
IntentHash(orderId, amount) ==
  ToUpperCase(Md5Hex(MerchantId \o orderId \o amount \o Currency \o MerchantSecret))

\* Mutant: the owner of the booking is not compared with the caller.
IntentAllowedAnyOwner(user, id) ==
  id \in Stored /\ bookings[id].status = "pending"

\* !(!booking || booking.status !== 'pending' || booking.touristId._id !== req.user.id)
IntentAllowed(user, id) ==
  /\ id \in Stored
  /\ bookings[id].status = "pending"
  /\ bookings[id].touristId = user.id

\* .populate('providerId touristId') leaves providerId null: the booking has
\* no provider, or the provider document is gone.
ProviderNull(booking) == booking.providerId = NoStr \/ ~ProviderFound(booking.providerId)

\* POST /api/payments/create-intent.  A booking whose provider populates as
\* null throws into the catch when a field of the provider is read, and so
\* does a pending booking whose tourist document is gone when the owner is
\* compared.
CreateIntent(user, body) ==
  /\ UNCHANGED <<bookings, nextId, created, contacts, reviews, approve, users>>
  /\ IF user.role # "tourist"
     THEN last' = Reply("createIntent", user, body, body.bookingId, 403)
     ELSE IF ~IsValidObjectId(body.bookingId)
     THEN last' = Reply("createIntent", user, body, body.bookingId, 400)
     ELSE IF /\ body.bookingId \in Stored
             /\ bookings[body.bookingId].status = "pending"
             /\ ~TouristFound(bookings[body.bookingId].touristId)
     THEN last' = ReplyFound("createIntent", user, body, body.bookingId, 500,
                             "pending", TRUE)
     ELSE IF ~IntentAllowed(user, body.bookingId)
     THEN last' = ReplyFound("createIntent", user, body, body.bookingId, 400,
                             StatusOf(body.bookingId), TRUE)
     ELSE LET booking == bookings[body.bookingId] IN
          IF body.paymentMethod = "stripe"
          THEN IF ProviderNull(booking)
               THEN last' = ReplyFound("createIntent", user, body, body.bookingId, 500,
                                       "pending", TRUE)
               ELSE last' = [ReplyFound("createIntent", user, body, body.bookingId, 200,
                                        "pending", TRUE)
                               EXCEPT !.body = {[method |-> "stripe",
                                                 bookingId |-> body.bookingId,
                                                 amount |-> booking.totalPrice * 10]}]
          ELSE IF body.paymentMethod = "payhere"
          THEN IF ProviderNull(booking)
               THEN last' = ReplyFound("createIntent", user, body, body.bookingId, 500,
                                       "pending", TRUE)
               ELSE last' = [ReplyFound("createIntent", user, body, body.bookingId, 200,
                                        "pending", TRUE)
                               EXCEPT !.body = {[method |-> "payhere",
                                                 order_id |-> body.bookingId,
                                                 amount |-> ToFixed2(booking.totalPrice),
                                                 hash |-> IntentHash(body.bookingId,
                                                            ToFixed2(booking.totalPrice))]}]
          ELSE last' = ReplyFound("createIntent", user, body, body.bookingId, 400,
                                  "pending", TRUE)

\* --------------------------------------------------------------- accounts

\* The token jwt.sign({ id, role }, JWT_SECRET, { expiresIn: '1h' }) issues.
SignedToken(id, role) ==
  [payload |-> [id |-> id, role |-> role], signed |-> TRUE, expired |-> FALSE]

\* The response of a successful provider signup.
SignupReply(email) ==
  [Reply("providerSignup", NoRef, email, email, 200)
     EXCEPT !.body = {SignedToken(email, "provider")}]

\* POST /api/auth/provider/signup: an account is named by its email; complete
\* says whether every required field and file is present.
ProviderSignup(email, complete) ==
  /\ UNCHANGED <<bookings, nextId, created, contacts, reviews, approve>>
  /\ IF ~complete
     THEN last' = Reply("providerSignup", NoRef, email, NoRef, 400) /\ UNCHANGED users
     ELSE IF ProviderFound(email)
     THEN last' = Reply("providerSignup", NoRef, email, NoRef, 400) /\ UNCHANGED users
     ELSE /\ users[email].state = "absent"
          /\ users' = [users EXCEPT ![email] = [state |-> "stored", approved |-> FALSE]]
          /\ last' = SignupReply(email)

\* POST /api/auth/login: email and password present; passwordOk is the outcome
\* of bcrypt.compare.
Login(role, email, passwordOk) ==
  /\ UNCHANGED <<bookings, nextId, created, contacts, reviews, approve, users>>
  /\ LET req == [role |-> role, email |-> email]
         found == CASE role = "tourist" -> TouristFound(email)
                    [] role = "provider" -> ProviderFound(email)
                    [] role = "admin" -> email = AdminId
                    [] OTHER -> FALSE
     IN  IF role \notin {"tourist", "provider", "admin"}
         THEN last' = Reply("login", NoRef, req, NoRef, 400)
         ELSE IF ~found
         THEN last' = Reply("login", NoRef, req, NoRef, 400)
         ELSE IF ~passwordOk
         THEN last' = Reply("login", NoRef, req, NoRef, 400)
         ELSE IF role = "provider" /\ ~users[email].approved
         THEN last' = Reply("login", NoRef, req, NoRef, 403)
         ELSE last' = [Reply("login", NoRef, req, email, 200)
                         EXCEPT !.body = {SignedToken(email, role)}]

\* PUT /api/admin/providers/:id/approve
AdminApproveProvider(user, id) ==
  /\ UNCHANGED <<bookings, nextId, created, contacts, reviews, approve>>
  /\ IF user.role # "admin"
     THEN last' = Reply("approveProvider", user, Undef, id, 403) /\ UNCHANGED users
     ELSE IF ~IsValidObjectId(id)
     THEN last' = Reply("approveProvider", user, Undef, id, 500) /\ UNCHANGED users
     ELSE IF ~ProviderFound(id)
     THEN last' = Reply("approveProvider", user, Undef, id, 404) /\ UNCHANGED users
     ELSE /\ users' = [users EXCEPT ![id].approved = TRUE]
          /\ last' = Reply("approveProvider", user, Undef, id, 200)

\* DELETE /api/admin/providers/:id
AdminDeleteProvider(user, id) ==
  /\ UNCHANGED <<bookings, nextId, created, contacts, reviews, approve>>
  /\ IF user.role # "admin"
     THEN last' = Reply("deleteProvider", user, Undef, id, 403) /\ UNCHANGED users
     ELSE IF ~IsValidObjectId(id)
     THEN last' = Reply("deleteProvider", user, Undef, id, 500) /\ UNCHANGED users
     ELSE IF ~ProviderFound(id)
     THEN last' = Reply("deleteProvider", user, Undef, id, 404) /\ UNCHANGED users
     ELSE /\ users' = [users EXCEPT ![id].state = "deleted"]
          /\ last' = Reply("deleteProvider", user, Undef, id, 200)

\* DELETE /api/admin/tourists/:id
AdminDeleteTourist(user, id) ==
  /\ UNCHANGED <<bookings, nextId, created, contacts, reviews, approve>>
  /\ IF user.role # "admin"
     THEN last' = Reply("deleteTourist", user, Undef, id, 403) /\ UNCHANGED users
     ELSE IF ~IsValidObjectId(id)
     THEN last' = Reply("deleteTourist", user, Undef, id, 500) /\ UNCHANGED users
     ELSE IF ~TouristFound(id)
     THEN last' = Reply("deleteTourist", user, Undef, id, 404) /\ UNCHANGED users
     ELSE /\ users' = [users EXCEPT ![id].state = "deleted"]
          /\ last' = Reply("deleteTourist", user, Undef, id, 200)

\* --------------------------------------------------------------- listings

\* The fields of a booking a listing is compared on.
BookingView(b) ==
  [id |-> b, status |-> bookings[b].status, totalPrice |-> bookings[b].totalPrice]

\* GET /api/bookings/my-bookings of the debugging variant: the role check is
\* commented out.
MyBookingsV2(user) ==
  /\ UNCHANGED <<bookings, nextId, created, contacts, reviews, approve, users>>
  /\ last' = [Reply("myBookingsV2", user, Undef, NoRef, 200)
                EXCEPT !.body = {BookingView(b) :
                                   b \in {x \in Stored : bookings[x].touristId = user.id}}]

\* GET /api/bookings/provider-bookings
ProviderBookings(user) ==
  /\ UNCHANGED <<bookings, nextId, created, contacts, reviews, approve, users>>
  /\ IF user.role # "provider"
     THEN last' = Reply("providerBookings", user, Undef, NoRef, 403)
     ELSE IF ~ProviderFound(user.id) \/ ~users[user.id].approved
     THEN last' = Reply("providerBookings", user, Undef, NoRef, 404)
     ELSE last' = [Reply("providerBookings", user, Undef, NoRef, 200)
                     EXCEPT !.body = {BookingView(b) :
                                        b \in {x \in Stored :
                                                 bookings[x].providerId = user.id}}]

\* GET /api/bookings/admin
AdminBookings(user) ==
  /\ UNCHANGED <<bookings, nextId, created, contacts, reviews, approve, users>>
  /\ IF user.role # "admin"
     THEN last' = Reply("adminBookings", user, Undef, NoRef, 403)
     ELSE last' = [Reply("adminBookings", user, Undef, NoRef, 200)
                     EXCEPT !.body = {BookingView(b) : b \in Stored}]

\* ---------------------------------------------------------------- providers

\* The order in which Provider.find returns the collection.
ProviderOrder == <<"p1", "p2", "p3">>

\* .limit(n): the first n documents, all of them when n is 0.
Limit(seq, n) == IF n = 0 \/ n >= Len(seq) THEN seq ELSE SubSeq(seq, 1, n)

\* The provider document a public response carries.
ProviderView(p) == [id |-> p, approved |-> users[p].approved]

\* GET /api/providers (public): filters on approved only when the query says
\* approved=true.
ListProviders(query) ==
  /\ UNCHANGED <<bookings, nextId, created, contacts, reviews, approve, users>>
  /\ LET matches(p) == ProviderFound(p) /\ (query.approved # "true" \/ users[p].approved)
         found == Limit(SelectSeq(ProviderOrder, matches), ParseIntOr(query.limit, 0))
     IN  last' = [Reply("listProviders", NoRef, query, NoRef, 200)
                    EXCEPT !.body = {ProviderView(found[i]) : i \in 1..Len(found)}]

\* GET /api/providers/:id (public)
GetProvider(id) ==
  /\ UNCHANGED <<bookings, nextId, created, contacts, reviews, approve, users>>
  /\ IF ~IsValidObjectId(id)
     THEN last' = Reply("getProvider", NoRef, Undef, id, 400)
     ELSE IF ~ProviderFound(id)
     THEN last' = Reply("getProvider", NoRef, Undef, id, 404)
     ELSE last' = [Reply("getProvider", NoRef, Undef, id, 200)
                     EXCEPT !.body = {ProviderView(id)}]

\* ------------------------------------------------------------------ reviews

\* validProducts of the review handler.
ValidProducts == PricedProducts \cup UnpricedProducts \cup {"Budget Village Tour"}

\* Mutant: the lookup does not filter on the status.
HasBooking(tourist, field, target) ==
  \E b \in Stored :
    /\ bookings[b].touristId = tourist
    /\ bookings[b][field] = target

\* Booking.findOne({ touristId, providerId | productType, status: 'confirmed' })
HasConfirmed(tourist, field, target) ==
  \E b \in Stored :
    /\ bookings[b].touristId = tourist
    /\ bookings[b][field] = target
    /\ bookings[b].status = "confirmed"

\* !comment || comment.trim() === ''
Blank(comment) == comment \in {NoStr, "", " "}

\* Mutant: every review is stored approved.
StoreReviewApproved(user, body) ==
  /\ Len(reviews) < MaxReviews
  /\ reviews' = Append(reviews,
                       [targetId |-> body.targetId, reviewerId |-> user.id,
                        rating |-> Number(body.rating), reviewType |-> body.reviewType,
                        approved |-> TRUE])
  /\ last' = Reply("review", user, body, NoRef, 200)

\* Review.create
StoreReview(user, body) ==
  /\ Len(reviews) < MaxReviews
  /\ reviews' = Append(reviews,
                       [targetId |-> body.targetId, reviewerId |-> user.id,
                        rating |-> Number(body.rating), reviewType |-> body.reviewType,
                        approved |-> body.reviewType \in {"service", "product"}])
  /\ last' = Reply("review", user, body, NoRef, 200)

\* The permission checks of the review handler: the status they answer with,
\* 200 when the review may be stored.
ReviewGate(user, body) ==
  IF user.role = "tourist"
  THEN IF body.reviewType = "service"
       THEN IF ~IsValidObjectId(body.targetId) THEN 400
            ELSE IF ~ProviderFound(body.targetId) THEN 404
            ELSE IF ~HasConfirmed(user.id, "providerId", body.targetId) THEN 403
            ELSE 200
       ELSE IF body.reviewType = "product"
       THEN IF body.targetId \notin ValidProducts THEN 400
            ELSE IF ~HasConfirmed(user.id, "productType", body.targetId) THEN 403
            ELSE 200
       ELSE 403
  ELSE IF user.role = "provider" /\ body.reviewType = "tourist"
  THEN IF ~IsValidObjectId(body.targetId) THEN 400
       ELSE IF ~TouristFound(body.targetId) THEN 404
       ELSE IF ~HasConfirmed(body.targetId, "providerId", user.id) THEN 403
       ELSE 200
  ELSE 403

\* POST /api/reviews
SubmitReview(user, body) ==
  /\ UNCHANGED <<bookings, nextId, created, contacts, approve, users>>
  /\ IF body.targetId = NoStr
     THEN last' = Reply("review", user, body, NoRef, 400) /\ UNCHANGED reviews
     ELSE IF Falsy(body.rating) \/ Number(body.rating) < 1 \/ Number(body.rating) > 5
     THEN last' = Reply("review", user, body, NoRef, 400) /\ UNCHANGED reviews
     ELSE IF Blank(body.comment)
     THEN last' = Reply("review", user, body, NoRef, 400) /\ UNCHANGED reviews
     ELSE IF body.reviewType \notin {"service", "product", "tourist"}
     THEN last' = Reply("review", user, body, NoRef, 400) /\ UNCHANGED reviews
     ELSE IF ReviewGate(user, body) # 200
     THEN last' = Reply("review", user, body, NoRef, ReviewGate(user, body))
          /\ UNCHANGED reviews
     ELSE StoreReview(user, body)

\* The stored reviews whose id is id (at most one).
ReviewAt(id) == {i \in 1..Len(reviews) : ReviewIdNames[i] = id}

\* PUT /api/reviews/admin/reviews/:id/approve
AdminApproveReview(user, id) ==
  /\ UNCHANGED <<bookings, nextId, created, contacts, approve, users>>
  /\ IF user.role # "admin"
     THEN last' = Reply("approveReview", user, Undef, id, 403) /\ UNCHANGED reviews
     ELSE IF ~IsValidObjectId(id)
     THEN last' = Reply("approveReview", user, Undef, id, 400) /\ UNCHANGED reviews
     ELSE IF ReviewAt(id) = {}
     THEN last' = Reply("approveReview", user, Undef, id, 404) /\ UNCHANGED reviews
     ELSE /\ reviews' = [i \in 1..Len(reviews) |->
                           IF i \in ReviewAt(id)
                           THEN [reviews[i] EXCEPT !.approved = TRUE]
                           ELSE reviews[i]]
          /\ last' = Reply("approveReview", user, Undef, id, 200)

\* The review document a public listing carries, with the reviewer as given.
ReviewView(i, reviewer) ==
  [id |-> ReviewIdNames[i], reviewerId |-> reviewer,
   targetId |-> reviews[i].targetId, reviewType |-> reviews[i].reviewType]

\* .slice(0, n) of the indices sorted newest first.
Newest(indices, n) == {i \in indices : Cardinality({j \in indices : j > i}) < n}

\* GET /api/reviews/all (public): the approved service and product reviews
\* whose reviewer, and for a service review whose provider, is found; the six
\* newest of them.
ListAllReviews ==
  /\ UNCHANGED <<bookings, nextId, created, contacts, reviews, approve, users>>
  /\ LET kept(i) ==
           /\ reviews[i].reviewType \in {"service", "product"}
           /\ reviews[i].approved
           /\ IsValidObjectId(reviews[i].reviewerId)
           /\ TouristFound(reviews[i].reviewerId)
           /\ reviews[i].reviewType = "service" =>
                 /\ IsValidObjectId(reviews[i].targetId)
                 /\ ProviderFound(reviews[i].targetId)
         filteredReviews == Newest({i \in 1..Len(reviews) : kept(i)}, 6)
     IN  last' = [Reply("listAllReviews", NoRef, Undef, NoRef, 200)
                    EXCEPT !.body = {ReviewView(i, reviews[i].reviewerId) :
                                       i \in filteredReviews}]

\* .populate('reviewerId'): the tourist document, null when none is found.
Populate(reviewer) == IF TouristFound(reviewer) THEN reviewer ELSE NoRef

\* GET /api/reviews/:serviceId (public): the approved service reviews of a
\* stored provider, each with its reviewer populated.
ListServiceReviews(serviceId) ==
  /\ UNCHANGED <<bookings, nextId, created, contacts, reviews, approve, users>>
  /\ IF ~IsValidObjectId(serviceId)
     THEN last' = Reply("listServiceReviews", NoRef, Undef, serviceId, 400)
     ELSE IF ~ProviderFound(serviceId)
     THEN last' = Reply("listServiceReviews", NoRef, Undef, serviceId, 404)
     ELSE last' = [Reply("listServiceReviews", NoRef, Undef, serviceId, 200)
                     EXCEPT !.body =
                       {ReviewView(i, Populate(reviews[i].reviewerId)) :
                          i \in {j \in 1..Len(reviews) :
                                   /\ reviews[j].targetId = serviceId
                                   /\ reviews[j].reviewType = "service"
                                   /\ reviews[j].approved}}]

\* ------------------------------------------------------------ authentication

\* An Authorization header: its scheme (NoStr when the header is absent) and
\* the token after the first space (Undef when there is none).  A token is its
\* payload, whether its signature verifies under JWT_SECRET, and whether it
\* has expired.
Header(scheme, token) == [scheme |-> scheme, token |-> token]
Jwt(id, role, signed, expired) ==
  [payload |-> [id |-> id, role |-> role], signed |-> signed, expired |-> expired]

\* jwt.verify(token, process.env.JWT_SECRET) returns the payload
JwtVerifies(token) == token.signed /\ ~token.expired

\* authenticateToken: 401, or 0 when next() is called with req.user = decoded.
AuthenticateToken(h) ==
  IF h.scheme # "Bearer" THEN 401
  ELSE IF h.token = Undef THEN 401
  ELSE IF ~JwtVerifies(h.token) THEN 401
  ELSE IF \/ h.token.payload.id = NoStr
          \/ h.token.payload.role \notin {"admin", "tourist", "provider"}
  THEN 401
  ELSE 0

\* verifyAdmin of the admin router, up to the role check: the token is whatever
\* follows the first space of the header; 401, or 0 when the token verifies.
VerifyAdmin(h) ==
  IF h.scheme = NoStr \/ h.token = Undef THEN 401
  ELSE IF ~JwtVerifies(h.token) THEN 401
  ELSE 0

\* The response of a middleware that ends the request.
Refused(h, code) ==
  /\ last' = Reply("auth", NoRef, h, NoRef, code)
  /\ UNCHANGED <<bookings, nextId, created, contacts, reviews, approve, users>>

\* POST /api/bookings behind authenticateToken.
RouteCreate(h, body) ==
  IF AuthenticateToken(h) # 0
  THEN Refused(h, AuthenticateToken(h))
  ELSE CreateBooking(h.token.payload, body)

\* POST /api/bookings/admin behind authenticateToken and isAdmin.
RouteAdminCreate(h, body) ==
  IF AuthenticateToken(h) # 0
  THEN Refused(h, AuthenticateToken(h))
  ELSE AdminCreateBooking(h.token.payload, body)

\* POST /api/admin/bookings/admin behind verifyAdmin.
RouteAdminAdd(h, body) ==
  IF VerifyAdmin(h) # 0
  THEN Refused(h, VerifyAdmin(h))
  ELSE AdminAddBooking(h.token.payload, body)

\* ----------------------------------------------------------------- requests

\* req.user as authenticateToken leaves it.
TouristUser(t) == [id |-> t, role |-> "tourist"]
ProviderUser(p) == [id |-> p, role |-> "provider"]
AdminUser == [id |-> AdminId, role |-> "admin"]

FullContact == [name |-> "n", email |-> "e", message |-> "m", phone |-> "077"]
NoPhone == [FullContact EXCEPT !.phone = NoStr]

\* Bodies of POST /api/bookings.
CreateBody(provider, adults, children, contact) ==
  [providerId |-> provider, date |-> "2025-01-01", time |-> "09:00",
   adults |-> adults, children |-> children, contact |-> contact]

\* Bodies of POST /api/bookings/product.
ProductBody(product, adults, price) ==
  [productType |-> product, date |-> "2025-01-01", time |-> "09:00",
   adults |-> adults, children |-> Undef, totalPrice |-> price,
   contact |-> FullContact]

\* Bodies of POST /api/admin/bookings/admin.
AdminBody(tourist, provider, product, adults, children, status) ==
  [touristId |-> tourist, providerId |-> provider, productType |-> product,
   date |-> "2025-01-01", time |-> "09:00", adults |-> adults,
   children |-> children, status |-> status]

\* Bodies of POST /api/bookings/admin.
AdminCreateBody(tourist, provider, product, adults, price, status, contact) ==
  [touristId |-> tourist, providerId |-> provider, productType |-> product,
   date |-> "2025-01-01", time |-> "09:00", adults |-> adults, children |-> Undef,
   totalPrice |-> price, status |-> status, contact |-> contact]

\* A hosted-page notification as the payment page signs it: the upper-case md5
\* of merchant id, order id, amount, currency, status code and shared secret.
SignedNotification(order, amount, status) ==
  [merchant_id |-> MerchantId, order_id |-> order, amount |-> amount,
   currency |-> Currency, status_code |-> status,
   md5sig |-> [md5 |-> MerchantId \o order \o amount \o Currency \o status
                         \o MerchantSecret,
               upper |-> TRUE]]

NotifyFields == {"merchant_id", "order_id", "amount", "currency", "status_code", "md5sig"}

\* Values a sender may put in a field of a notification.
FieldValues(f) ==
  CASE f = "merchant_id" -> {MerchantId, "1228", NoStr}
    [] f = "order_id" -> BookingIds \cup {GhostId, MalformedId}
    [] f = "amount" -> {"95.00", "9.50"}
    [] f = "currency" -> {Currency, "USD"}
    [] f = "status_code" -> {"2", "0", "-2"}
    [] f = "md5sig" -> {Undef,
                        Md5Hex(MerchantId \o "b1" \o "95.00" \o Currency \o "2"
                                 \o MerchantSecret),
                        ToUpperCase(Md5Hex(MerchantId \o "b1" \o "95.00" \o Currency
                                             \o "2" \o "guess"))}

\* The correctly signed notifications of the runs.
SignedNotifications ==
  {SignedNotification(o, "95.00", c) :
     o \in BookingIds \cup {GhostId, MalformedId}, c \in {"2", "0"}}

\* The fields in which two notifications differ.
Differing(a, b) == {f \in NotifyFields : a[f] # b[f]}

\* Correctly signed notifications and the ones that differ from one in one field.
Notifications ==
  SignedNotifications \cup
  UNION {{[n EXCEPT ![f] = v] : v \in FieldValues(f)} :
           n \in SignedNotifications, f \in NotifyFields}

\* Webhook deliveries: an event and the signature header it arrives with.
WebhookEvents ==
  [type : {"payment_intent.succeeded", "payment_intent.payment_failed"},
   bookingId : BookingIds \cup {GhostId, MalformedId}]
Webhooks ==
  {[event |-> e, sig |-> StripeSign(e, k)] : e \in WebhookEvents,
                                             k \in {WebhookSecret, "guess"}}
  \cup {[event |-> e, sig |-> StripeSign([e EXCEPT !.bookingId = GhostId], WebhookSecret)] :
          e \in WebhookEvents}
  \cup {[event |-> e, sig |-> Undef] : e \in WebhookEvents}

\* Bodies of POST /api/reviews.
ReviewBody(target, type, rating, comment) ==
  [targetId |-> target, rating |-> rating, comment |-> comment, reviewType |-> type]
ReviewBodies ==
  {ReviewBody(t, k, Num(5), "ok") :
     t \in {"p1", "t1", "Jeep Safari"}, k \in {"service", "product", "tourist"}}
  \cup {ReviewBody("High Tea", "product", Num(5), "ok"),
        ReviewBody(GhostId, "service", Num(5), "ok"),
        ReviewBody(NoStr, "service", Num(5), "ok"),
        ReviewBody("p1", "service", Num(6), "ok"),
        ReviewBody("p1", "service", Num(5), " ")}

\* Head counts of the pricing runs: absent, and every count up to the bound.
AdultCounts == {Undef} \cup {Num(n) : n \in -1..MaxAdults}
ChildCounts == {Undef} \cup {Num(n) : n \in 0..MaxChildren}
ProductNames == PricedProducts \cup UnpricedProducts \cup {"Whale Watching"}

\* Admin bodies with every combination of the three references present or
\* absent, for an approved and an unapproved provider.
ReferenceBodies ==
  {AdminCreateBody(t, p, pr, Num(2), Num(38), NoStr, FullContact) :
     t \in {"t1", NoStr}, p \in {"p1", "p2", NoStr}, pr \in {"Jeep Safari", NoStr}}

\* Authorization headers: absent, without a token, and tokens under the Bearer
\* and another scheme, well signed or not, expired or not, with and without an
\* id, for every role and an unknown one.
AuthHeaders ==
  {Header(NoStr, Undef), Header("Bearer", Undef)}
  \cup {Header(sc, Jwt(id, role, signed, expired)) :
          sc \in {"Bearer", "Token"}, id \in {"u1", NoStr},
          role \in {"admin", "tourist", "provider", "guest"},
          signed \in BOOLEAN, expired \in BOOLEAN}

\* ------------------------------------------------------- the specifications

Users == {TouristUser("t1"), TouristUser("t2"), ProviderUser("p1"), AdminUser}
AnyId == BookingIds \cup {GhostId, MalformedId}

\* Booking lifecycle: creation, approval in its three store steps, deletion,
\* payment confirmations, payment intents and listings.
Next ==
  \/ \E u \in {TouristUser("t1"), ProviderUser("p1")} :
       CreateBooking(u, CreateBody("p1", Num(2), Num(1), FullContact))
  \/ CreateProductBooking(TouristUser("t1"), ProductBody("Jeep Safari", Num(1), Num(380)))
  \/ \E u \in {AdminUser, TouristUser("t1")}, id \in AnyId : ApproveRead(u, id)
  \/ \E dbOk \in BOOLEAN : ApproveSave(dbOk)
  \/ ApproveReply
  \/ \E u \in {AdminUser, TouristUser("t1")}, id \in AnyId : AdminDelete(u, id)
  \/ \E o \in BookingIds, sig \in {"signed", "unsigned"}, dbOk \in BOOLEAN :
       PayhereNotification(IF sig = "signed"
                           THEN SignedNotification(o, "95.00", "2")
                           ELSE [SignedNotification(o, "95.00", "2") EXCEPT !.md5sig = Undef],
                           dbOk)
  \/ \E o \in BookingIds, k \in {WebhookSecret, "guess"}, dbOk \in BOOLEAN :
       LET e == [type |-> "payment_intent.succeeded", bookingId |-> o]
       IN  StripeWebhook([event |-> e, sig |-> StripeSign(e, k)], dbOk)
  \/ \E id \in BookingIds, m \in {"stripe", "payhere"} :
       CreateIntent(TouristUser("t1"), [bookingId |-> id, paymentMethod |-> m])
  \/ \E u \in {TouristUser("t1"), AdminUser} : MyBookings(u)

Spec == Init /\ [][Next]_vars

\* Bodies of the admin creations of the status runs: a provider booking with
\* every status an admin may send, and a product booking.
AdminCreateBodies ==
  {AdminCreateBody("t1", "p1", NoStr, Num(1), Undef, st, Undef) :
     st \in {NoStr, "confirmed", "cancelled", "archived"}}
  \cup {AdminCreateBody("t1", NoStr, "Jeep Safari", Num(1), Num(380), "cancelled",
                        FullContact)}

\* Status runs: bookings created by a tourist and by an admin, with any status
\* the admin sends, then approved on either route, confirmed by the payment
\* callbacks and deleted.
NextStatus ==
  \/ CreateBooking(TouristUser("t1"), CreateBody("p1", Num(2), Num(1), FullContact))
  \/ \E body \in AdminCreateBodies : AdminCreateBooking(AdminUser, body)
  \/ \E id \in BookingIds : ApproveRead(AdminUser, id)
  \/ ApproveSave(TRUE)
  \/ ApproveReply
  \/ \E id \in BookingIds : AdminApprove(AdminUser, id, TRUE)
  \/ \E id \in BookingIds : AdminDelete(AdminUser, id)
  \/ \E o \in BookingIds \cup {GhostId, MalformedId} :
       PayhereNotification(SignedNotification(o, "95.00", "2"), TRUE)
  \/ \E o \in BookingIds \cup {GhostId, MalformedId} :
       LET e == [type |-> "payment_intent.succeeded", bookingId |-> o]
       IN  StripeWebhook([event |-> e, sig |-> StripeSign(e, WebhookSecret)], TRUE)

SpecStatus == Init /\ [][NextStatus]_vars

\* Payment intents and listings: provider and product bookings of one tourist
\* are created, approved and deleted, while tourists and an admin ask for
\* payment intents for stored, deleted, unknown and malformed ids, and every
\* actor asks for each listing.
NextIntent ==
  \/ CreateBooking(TouristUser("t1"), CreateBody("p1", Num(2), Num(1), FullContact))
  \/ CreateProductBooking(TouristUser("t1"), ProductBody("Jeep Safari", Num(1), Num(380)))
  \/ \E id \in BookingIds : AdminApprove(AdminUser, id, TRUE)
  \/ \E id \in BookingIds : AdminDelete(AdminUser, id)
  \/ \E u \in {TouristUser("t1"), TouristUser("t2"), AdminUser}, id \in AnyId,
        m \in {"stripe", "payhere", "cash"} :
       CreateIntent(u, [bookingId |-> id, paymentMethod |-> m])
  \/ \E u \in Users : MyBookings(u)
  \/ \E u \in Users : MyBookingsV2(u)
  \/ \E u \in Users : ProviderBookings(u)
  \/ \E u \in Users : AdminBookings(u)

SpecIntent == Init /\ [][NextIntent]_vars

\* Payment reconciliation: the notification and webhook handlers against every
\* delivery of the runs, over a store that bookings enter.
NextPayments ==
  \/ CreateBooking(TouristUser("t1"), CreateBody("p1", Num(2), Num(1), FullContact))
  \/ \E n \in Notifications, dbOk \in BOOLEAN : PayhereNotification(n, dbOk)
  \/ \E w \in Webhooks, dbOk \in BOOLEAN : StripeWebhook(w, dbOk)

SpecPayments == Init /\ [][NextPayments]_vars

\* Review gating: bookings of one tourist with a provider and for a product
\* are created, confirmed by a payment notification and deleted, while
\* tourists and the provider submit reviews and the tourist asks for payment
\* intents and lists the bookings.
NextReview ==
  \/ CreateBooking(TouristUser("t1"), CreateBody("p1", Num(1), Undef, FullContact))
  \/ CreateProductBooking(TouristUser("t1"), ProductBody("Jeep Safari", Num(1), Num(380)))
  \/ \E o \in BookingIds : PayhereNotification(SignedNotification(o, "95.00", "2"), TRUE)
  \/ \E u \in {AdminUser, TouristUser("t1")}, id \in BookingIds : AdminDelete(u, id)
  \/ \E u \in {TouristUser("t1"), TouristUser("t2"), ProviderUser("p1")},
        body \in ReviewBodies : SubmitReview(u, body)
  \/ \E id \in BookingIds :
       CreateIntent(TouristUser("t1"), [bookingId |-> id, paymentMethod |-> "stripe"])
  \/ MyBookings(TouristUser("t1"))
  \/ \E id \in ReviewIds \cup {GhostId} : AdminApproveReview(AdminUser, id)
  \/ AdminApproveReview(TouristUser("t1"), ReviewIdNames[1])

SpecReview == Init /\ [][NextReview]_vars

\* Orphaned reviews: a tourist books a provider and a product, the bookings
\* are confirmed and reviewed, the tourist and the provider are deleted, and
\* the public review listings are read.
NextAccounts ==
  \/ CreateBooking(TouristUser("t1"), CreateBody("p1", Num(1), Undef, FullContact))
  \/ CreateProductBooking(TouristUser("t1"), ProductBody("Jeep Safari", Num(1), Num(380)))
  \/ \E id \in BookingIds : AdminApprove(AdminUser, id, TRUE)
  \/ \E body \in {ReviewBody("p1", "service", Num(5), "ok"),
                   ReviewBody("Jeep Safari", "product", Num(4), "ok")} :
       SubmitReview(TouristUser("t1"), body)
  \/ SubmitReview(ProviderUser("p1"), ReviewBody("t1", "tourist", Num(5), "ok"))
  \/ \E id \in ReviewIds : AdminApproveReview(AdminUser, id)
  \/ \E u \in {AdminUser, TouristUser("t1")} : AdminDeleteProvider(u, "p1")
  \/ \E u \in {AdminUser, TouristUser("t1")} : AdminDeleteTourist(u, "t1")
  \/ ListAllReviews
  \/ \E id \in {"p1", GhostId, MalformedId} : ListServiceReviews(id)

SpecAccounts == Init /\ [][NextAccounts]_vars

\* Provider accounts: providers sign up, log in, are approved and deleted by
\* an admin, and book-keeping requests arrive with the tokens they hold.
NextSignup ==
  \/ \E email \in {"p1", NewProviderId}, complete \in BOOLEAN : ProviderSignup(email, complete)
  \/ \E role \in {"tourist", "provider", "admin", "guest"},
        email \in {"t1", "p1", "p2", NewProviderId, AdminId}, passwordOk \in BOOLEAN :
       Login(role, email, passwordOk)
  \/ \E u \in {AdminUser, ProviderUser("p1")}, id \in {"p2", NewProviderId, MalformedId} :
       AdminApproveProvider(u, id)
  \/ \E u \in {AdminUser, TouristUser("t1")}, id \in {"p1", "p2", NewProviderId, GhostId} :
       AdminDeleteProvider(u, id)
  \/ \E id \in {"t1", "t2"} : AdminDeleteTourist(AdminUser, id)
  \/ \E p \in {"p2", NewProviderId} : ProviderBookings(ProviderUser(p))
  \/ \E q \in {NoStr, "true"} : ListProviders([approved |-> q, limit |-> Undef])

SpecSignup == Init /\ [][NextSignup]_vars

\* No request has been served yet.
Fresh == Stored = {} /\ last.op = "none"

\* Single requests: one creation request against the empty store, for every
\* head count up to the bounds, on each endpoint that computes a price; or one
\* request to a public provider endpoint; or one request to a protected
\* endpoint with each Authorization header.
NextPricing ==
  \/ \E p \in ProviderIds \cup {GhostId}, a \in AdultCounts, c \in ChildCounts :
       Fresh /\ CreateBooking(TouristUser("t1"), CreateBody(p, a, c, FullContact))
  \/ \E p \in ProviderIds, a \in AdultCounts, c \in ChildCounts :
       Fresh /\ CreateBookingV1(TouristUser("t1"), CreateBody(p, a, c, FullContact))
  \/ \E p \in ProviderIds \cup {GhostId}, a \in AdultCounts, c \in ChildCounts :
       Fresh /\ CreateBookingV2(TouristUser("t1"), CreateBody(p, a, c, FullContact))
  \/ \E a \in {NoStr, "true", "false"}, n \in {Undef, Num(0), Num(1), Num(2)} :
       Fresh /\ ListProviders([approved |-> a, limit |-> n])
  \/ \E id \in ProviderIds \cup {GhostId, MalformedId} : Fresh /\ GetProvider(id)
  \/ \E u \in {TouristUser("t1"), ProviderUser("p1")},
        p \in ProductNames \cup {"Budget Village Tour", NoStr}, price \in {Num(380), Undef} :
       Fresh /\ CreateProductBooking(u, ProductBody(p, Num(2), price))
  \/ \E body \in ReferenceBodies :
       Fresh /\ AdminCreateBooking(AdminUser, body)
  \/ \E body \in ReferenceBodies : Fresh /\ AdminAddBooking(AdminUser, body)
  \/ \E h \in AuthHeaders :
       Fresh /\ RouteCreate(h, CreateBody("p1", Num(2), Num(1), FullContact))
  \/ \E h \in AuthHeaders :
       Fresh /\ RouteAdminCreate(h, AdminCreateBody("t1", "p1", NoStr, Num(1), Undef,
                                                    NoStr, FullContact))
  \/ \E h \in AuthHeaders :
       Fresh /\ RouteAdminAdd(h, AdminBody("t1", "p1", NoStr, Num(2), Undef, NoStr))
  \/ \E p \in ProductNames, a \in AdultCounts, c \in ChildCounts :
       Fresh /\ AdminAddBooking(AdminUser, AdminBody("t1", NoStr, p, a, c, NoStr))
  \/ \E p \in ProviderIds, a \in AdultCounts, c \in ChildCounts :
       Fresh /\ AdminAddBooking(AdminUser, AdminBody("t2", p, NoStr, a, c, NoStr))

SpecPricing == Init /\ [][NextPricing]_vars

\* ------------------------------------------------------------------- claims

\* The last request was a confirm operation that the handler accepts: an admin
\* approve, a verified payment_intent.succeeded event, or a correctly signed
\* notification with status code "2".
LastIsConfirm ==
  \/ last.op = "approve" /\ last.user.role = "admin"
  \/ /\ last.op = "webhook"
     /\ last.req.sig = [over |-> last.req.event, key |-> WebhookSecret]
     /\ last.req.event.type = "payment_intent.succeeded"
  \/ /\ last.op = "payhere"
     /\ last.req \in SignedNotifications
     /\ last.req.status_code = "2"

\* C1: a confirm operation (admin approve, verified Stripe success event,
\* correctly signed PayHere success notification) that finds the booking already
\* confirmed, with the store answering and the booking still stored, is answered
\* 200 and the booking is confirmed afterwards; the invariant covers every
\* repetition.
C1_ConfirmIdempotent ==
  (/\ LastIsConfirm
   /\ last.found = "confirmed"
   /\ last.dbOk
   /\ last.id \in Stored)
  => (last.code = 200 /\ bookings[last.id].status = "confirmed")

C1_Witness ==
  /\ last.op = "payhere"
  /\ LastIsConfirm
  /\ last.found = "confirmed"
  /\ last.code = 200
  /\ last.id \in Stored

\* C5: when a payment confirmation and an admin approve of the same booking
\* interleave, in any order and with the confirmation's write between approve's
\* read and its save, each request whose store operation goes through on the
\* still stored booking is answered 200, and the booking is confirmed from the
\* first of the two writes on.
C5_RaceConverges ==
  /\ (approve.pc = "saved" /\ approve.id \in Stored)
       => bookings[approve.id].status = "confirmed"
  /\ (/\ last.op = "approve" /\ last.user.role = "admin"
      /\ last.found # "<none>" /\ last.dbOk /\ last.id \in Stored)
       => (last.code = 200 /\ bookings[last.id].status = "confirmed")
  /\ (/\ approve.pc \in {"loaded", "saved"}
      /\ last.op \in {"webhook", "payhere"} /\ LastIsConfirm
      /\ last.id = approve.id /\ last.dbOk /\ last.id \in Stored)
       => (last.code = 200 /\ bookings[last.id].status = "confirmed")

C5_Witness ==
  /\ last.op = "approve"
  /\ last.code = 200
  /\ last.found = "pending"
  /\ last.atSave = "confirmed"
  /\ last.id \in Stored
  /\ bookings[last.id].status = "confirmed"

\* C7: the stored totalPrice of every booking is the one it was created with,
\* whatever approvals, payment callbacks, payment intents and listings followed;
\* the listing and the approve response return that price, and the approve
\* response returns the booking as confirmed.
C7_PriceFixed ==
  /\ \A b \in Stored : bookings[b].totalPrice = created[b]
  /\ last.op \in {"myBookings", "approve"}
       => \A r \in last.body : r.totalPrice = created[r.id]
  /\ last.op = "approve" => \A r \in last.body : r.status = "confirmed"

C7_Witness ==
  /\ last.op = "myBookings"
  /\ \E r \in last.body : r.status = "confirmed" /\ r.totalPrice = created[r.id]
  /\ \E b \in Stored : bookings[b].status = "confirmed"

\* The signature the payment page puts on the fields of a notification.
CorrectlySigned(n) ==
  n.md5sig = SignedNotification(Str(n.order_id), Str(n.amount), Str(n.status_code)).md5sig
  /\ n.merchant_id = MerchantId /\ n.currency = Currency

\* The notification differs in exactly one field from a correctly signed one.
TamperedOnce(n) ==
  \E s \in SignedNotifications : Cardinality(Differing(n, s)) = 1

\* This step serves the notification logged in last'.
PayhereStep == last'.op = "payhere" /\ PayhereNotification(last'.req, last'.dbOk)

\* C2: a notification that differs in exactly one of merchant_id, order_id,
\* amount, currency, status_code, md5sig from a correctly signed one has a
\* recomputed hash different from its md5sig, is rejected (400), and the step
\* changes no booking.
C2_TamperRejected ==
  [][(PayhereStep /\ TamperedOnce(last'.req))
       => (/\ GeneratedSig(last'.req) # last'.req.md5sig
           /\ last'.code = 400
           /\ bookings' = bookings)]_vars

C2_Witness ==
  /\ last.op = "payhere"
  /\ TamperedOnce(last.req)
  /\ Differing(last.req, SignedNotification("b1", "95.00", "2")) = {"status_code"}
  /\ last.found = "pending"
  /\ last.code = 400

\* C3 as stated: a notification with a tampered hash for a stored pending
\* booking leaves it pending and is acknowledged with 200.
C3_TamperedAcknowledged ==
  [][(/\ PayhereStep
      /\ ~CorrectlySigned(last'.req)
      /\ StatusOf(last'.req.order_id) = "pending")
       => (last'.code = 200 /\ bookings' = bookings)]_vars

\* C3 amended: a notification with a tampered hash for a stored pending booking
\* leaves it pending, performs no update, and is answered 400.
C3_TamperedRejected ==
  [][(/\ PayhereStep
      /\ ~CorrectlySigned(last'.req)
      /\ StatusOf(last'.req.order_id) = "pending")
       => (last'.code = 400 /\ bookings' = bookings)]_vars

C3_Witness ==
  /\ last.op = "payhere"
  /\ last.req.md5sig # SignedNotification(last.req.order_id, last.req.amount,
                                          last.req.status_code).md5sig
  /\ last.req.md5sig # Undef
  /\ last.found = "pending"
  /\ last.code = 400
  /\ last.id \in Stored
  /\ bookings[last.id].status = "pending"

\* C4: a notification changes a booking exactly when it is correctly signed and
\* its status_code is the string "2" (and the update reaches a stored booking):
\* then the booking named by order_id becomes confirmed and nothing else
\* changes; a correctly signed notification with another status_code changes
\* nothing and is answered 200.
C4_ConfirmIffSignedSuccess ==
  [][PayhereStep =>
       LET n == last'.req
           ok == CorrectlySigned(n) /\ n.status_code = "2"
       IN  /\ (ok /\ last'.dbOk /\ n.order_id \in Stored)
                => bookings' = [bookings EXCEPT ![n.order_id].status = "confirmed"]
           /\ ok => last'.code = 200
           /\ ~ok => bookings' = bookings
           /\ (CorrectlySigned(n) /\ n.status_code # "2") => last'.code = 200
           /\ DOMAIN bookings' = Stored
           /\ \A b \in Stored \ {n.order_id} : bookings'[b] = bookings[b]]_vars

C4_Witness ==
  /\ last.op = "payhere"
  /\ CorrectlySigned(last.req)
  /\ last.req.status_code = "2"
  /\ last.found = "pending"
  /\ last.code = 200
  /\ last.id \in Stored
  /\ bookings[last.id].status = "confirmed"
  /\ \E b \in Stored : bookings[b].status = "pending"

\* This step serves the webhook delivery logged in last'.
WebhookStep == last'.op = "webhook" /\ StripeWebhook(last'.req, last'.dbOk)

\* The delivery carries the signature of its own payload under the webhook secret.
Verified(w) == w.sig = [over |-> w.event, key |-> WebhookSecret]

\* C10: a webhook delivery whose signature fails verification is answered 400
\* and changes no booking; a verified payment_intent.succeeded event sets the
\* booking named in its metadata, and no other, to confirmed; a verified event
\* of another type changes no booking.
C10_WebhookVerified ==
  [][WebhookStep =>
       LET w == last'.req
           id == w.event.bookingId
       IN  /\ ~Verified(w) => (last'.code = 400 /\ bookings' = bookings)
           /\ (/\ Verified(w) /\ w.event.type = "payment_intent.succeeded"
               /\ last'.dbOk /\ id \in Stored)
                => bookings' = [bookings EXCEPT ![id].status = "confirmed"]
           /\ (Verified(w) /\ w.event.type # "payment_intent.succeeded")
                => bookings' = bookings
           /\ DOMAIN bookings' = Stored
           /\ \A b \in Stored \ {id} : bookings'[b] = bookings[b]]_vars

C10_Witness ==
  /\ last.op = "webhook"
  /\ Verified(last.req)
  /\ last.req.event.type = "payment_intent.succeeded"
  /\ last.found = "pending"
  /\ last.code = 200
  /\ last.id \in Stored
  /\ bookings[last.id].status = "confirmed"
  /\ \E b \in Stored : bookings[b].status = "pending"

\* This step serves the review submission logged in last'.
ReviewStep == last'.op = "review" /\ SubmitReview(last'.user, last'.req)

\* The reviewer holds a confirmed booking matching (reviewer, target, kind).
Matching(reviewer, target, kind) ==
  \E b \in Stored :
    /\ bookings[b].status = "confirmed"
    /\ CASE kind = "service" ->
              bookings[b].touristId = reviewer /\ bookings[b].providerId = target
         [] kind = "product" ->
              bookings[b].touristId = reviewer /\ bookings[b].productType = target
         [] kind = "tourist" ->
              bookings[b].providerId = reviewer /\ bookings[b].touristId = target
         [] OTHER -> FALSE

\* The submission is well formed and its target exists.
ValidReview(body) ==
  /\ body.targetId # NoStr
  /\ body.rating # Undef /\ body.rating.v \in 1..5
  /\ body.comment \notin {NoStr, "", " "}
  /\ \/ body.reviewType = "service" /\ ProviderFound(body.targetId)
     \/ body.reviewType = "product" /\ body.targetId \in ValidProducts
     \/ body.reviewType = "tourist" /\ TouristFound(body.targetId)

\* C6: a review is stored only when, at the submission, the reviewer holds a
\* confirmed booking matching (reviewer, target, kind); without one the review
\* is not stored and a well-formed submission is answered 403; with one, a
\* well-formed submission is stored and answered 200.
C6_ReviewGated ==
  [][ReviewStep =>
       LET u == last'.user
           body == last'.req
           held == Matching(u.id, body.targetId, body.reviewType)
       IN  /\ reviews' # reviews => held
           /\ ~held => (reviews' = reviews /\ last'.code \in {400, 403, 404})
           /\ (~held /\ ValidReview(body)) => last'.code = 403
           /\ (held /\ ValidReview(body))
                => /\ last'.code = 200
                   /\ Len(reviews') = Len(reviews) + 1
                   /\ reviews'[Len(reviews')].targetId = body.targetId
                   /\ reviews'[Len(reviews')].reviewerId = u.id
                   /\ reviews'[Len(reviews')].reviewType = body.reviewType]_vars

C6_Witness ==
  /\ last.op = "review"
  /\ last.code = 200
  /\ last.user.role = "provider"
  /\ Matching(last.user.id, last.req.targetId, last.req.reviewType)
  /\ Len(reviews) >= 1
  /\ reviews[Len(reviews)].reviewerId = last.user.id
  /\ reviews[Len(reviews)].targetId = "t1"

\* C8 as stated: every provider-based booking the tourist creation endpoint
\* (either router) accepts for a request with adults = a and children = c
\* (0 when absent) is stored with totalPrice = r * (a + 0.5 * c), r the
\* provider's base price.
C8_ProviderPrice ==
  (/\ last.op \in {"create", "createV1"}
   /\ last.code = 200
   /\ last.req.adults # Undef)
  => LET a == last.req.adults.v
         c == IF last.req.children = Undef THEN 0 ELSE last.req.children.v
         r == providers[last.req.providerId].price
     IN  2 * bookings[last.id].totalPrice = r * (2 * a + c)

\* A tier of the table holds n persons.
Holds(tier, n) == tier.min <= n /\ (tier.max = 0 \/ n <= tier.max)

C11_FailureAcknowledged ==
  (/\ ~last.dbOk
   /\ \/ /\ last.op = "webhook"
         /\ Verified(last.req)
         /\ last.req.event.type = "payment_intent.succeeded"
      \/ /\ last.op = "payhere"
         /\ CorrectlySigned(last.req)
         /\ last.req.status_code = "2")
  => last.code = 200

\* The status changes the lifecycle allows.
AllowedChanges ==
  {<<"pending", "confirmed">>, <<"pending", "cancelled">>, <<"confirmed", "cancelled">>}

\* C12: every status change of a stored booking is pending -> confirmed,
\* pending -> cancelled or confirmed -> cancelled; no step moves a booking out
\* of cancelled, and none moves a confirmed booking back to pending.
C12_AllowedTransitions ==
  [][\A b \in Stored \cap DOMAIN bookings' :
       bookings'[b].status # bookings[b].status
         => <<bookings[b].status, bookings'[b].status>> \in AllowedChanges]_vars

TouristStep ==
  /\ last' # last
  /\ last'.op \in {"create", "createProduct", "myBookings", "createIntent", "review",
                   "delete"}
  /\ last'.user.role = "tourist"

\* C14: no request made with the tourist role (provider-based create, product
\* create, my-bookings, create-intent, review submit, or an admin route it is
\* refused on) changes the status of an already stored booking or removes it.
C14_TouristNoStatusChange ==
  [][TouristStep =>
       \A b \in Stored :
         b \in DOMAIN bookings' /\ bookings'[b].status = bookings[b].status]_vars

C14_Witness ==
  /\ last.op = "createIntent"
  /\ last.user.role = "tourist"
  /\ last.code = 200
  /\ bookings[last.id].status = "pending"
  /\ \E b \in Stored : bookings[b].status = "confirmed"

\* The provider a creation request names is absent or not approved.
ProviderUnavailable(p) == ~ProviderFound(p) \/ ~users[p].approved

\* C15: a tourist creation request (either variant of the bookings router)
\* that names, with a well-formed id, a provider that is absent or not approved
\* produces no booking and no contact submission, and a request that is
\* otherwise complete is answered 404.
C15_ApprovedProviderOnly ==
  (/\ last.op \in {"create", "createV2"}
   /\ IsValidObjectId(last.req.providerId)
   /\ ProviderUnavailable(last.req.providerId))
  => /\ Stored = {}
     /\ contacts = 0
     /\ last.code # 200
     /\ (last.req.adults # Undef /\ last.req.adults.v >= 1) => last.code = 404

\* C16: the public provider list and the public provider lookup return no
\* provider whose approved flag is false, whatever the query.
C16_PublicApprovedOnly ==
  last.op \in {"listProviders", "getProvider"} => \A r \in last.body : r.approved

\* This step serves the create-intent request logged in last'.
IntentStep == last'.op = "createIntent" /\ CreateIntent(last'.user, last'.req)

\* C17: create-intent answers with payment data only when the named booking is
\* stored, pending, owned by the caller, and the caller is a tourist; in every
\* other case it answers with an error and no payment data; it never modifies
\* a booking.
C17_IntentOnlyForOwnPending ==
  [][IntentStep =>
       LET u == last'.user
           id == last'.req.bookingId
           eligible == /\ u.role = "tourist"
                       /\ id \in Stored
                       /\ bookings[id].status = "pending"
                       /\ bookings[id].touristId = u.id
       IN  /\ last'.body # {} => (eligible /\ last'.code = 200)
           /\ last'.code = 200 => last'.body # {}
           /\ ~eligible => (last'.code \in {400, 403} /\ last'.body = {})
           /\ bookings' = bookings]_vars

C17_Witness ==
  /\ last.op = "createIntent"
  /\ last.code = 200
  /\ \E d \in last.body : d.method = "payhere" /\ d.order_id = last.id
  /\ bookings[last.id].status = "pending"
  /\ bookings[last.id].touristId = last.user.id
  /\ \E b \in Stored : bookings[b].status = "confirmed"

\* The ids a listing response carries.
Listed == {r.id : r \in last.body}

\* C18: my-bookings (either variant) returns exactly the bookings whose
\* touristId is the calling tourist and refuses a non-tourist with 403;
\* provider-bookings returns exactly the bookings whose providerId is the
\* calling provider and refuses a non-provider; the admin listing returns every
\* stored booking and refuses a non-admin.
C18_ListingsIsolated ==
  /\ last.op \in {"myBookings", "myBookingsV2"} =>
       IF last.user.role = "tourist"
       THEN last.code = 200
            /\ Listed = {b \in Stored : bookings[b].touristId = last.user.id}
       ELSE last.code = 403 /\ last.body = {}
  /\ last.op = "providerBookings" =>
       IF last.user.role = "provider"
       THEN last.code = 200
            /\ Listed = {b \in Stored : bookings[b].providerId = last.user.id}
       ELSE last.code = 403 /\ last.body = {}
  /\ last.op = "adminBookings" =>
       IF last.user.role = "admin"
       THEN last.code = 200 /\ Listed = Stored
       ELSE last.code = 403 /\ last.body = {}

\* The header carries no token, a token under another scheme than Bearer, an
\* expired or wrongly signed token, or a payload without an id or with a role
\* outside admin, tourist, provider.
BadToken(h) ==
  \/ h.scheme # "Bearer"
  \/ h.token = Undef
  \/ h.token.expired \/ ~h.token.signed
  \/ h.token.payload.id = NoStr
  \/ h.token.payload.role \notin {"admin", "tourist", "provider"}

\* C19: a request to a protected endpoint with such a header is answered 401
\* and stores nothing; a request to an admin-only endpoint with a good token of
\* another role than admin is answered 403 and stores nothing.
C19_RejectedBeforeHandler ==
  [][\A h \in AuthHeaders :
       /\ (/\ BadToken(h)
           /\ \/ RouteCreate(h, CreateBody("p1", Num(2), Num(1), FullContact))
              \/ RouteAdminCreate(h, AdminCreateBody("t1", "p1", NoStr, Num(1), Undef,
                                                     NoStr, FullContact))
              \/ RouteAdminAdd(h, AdminBody("t1", "p1", NoStr, Num(2), Undef, NoStr)))
            => (last'.code = 401 /\ UNCHANGED <<bookings, contacts, reviews>>)
       /\ (/\ ~BadToken(h)
           /\ h.token.payload.role # "admin"
           /\ \/ RouteAdminCreate(h, AdminCreateBody("t1", "p1", NoStr, Num(1), Undef,
                                                     NoStr, FullContact))
              \/ RouteAdminAdd(h, AdminBody("t1", "p1", NoStr, Num(2), Undef, NoStr)))
            => (last'.code = 403 /\ UNCHANGED <<bookings, contacts, reviews>>)]_vars

\* C20: a curated-product request of a tourist whose productType is not a name
\* of the static catalog is rejected and stores no booking.
C20_CatalogOnly ==
  (/\ last.op = "createProduct"
   /\ last.req.productType \notin companyProducts)
  => (last.code # 200 /\ Stored = {} /\ contacts = 0)

\* C21: the tourist creation endpoint rejects a request whose adults count is
\* zero or negative and stores nothing for it, so that every booking it stores
\* has adults >= 1 and children >= 0.
C21_HeadCountsValidated ==
  /\ (/\ last.op = "create"
      /\ last.req.adults # Undef
      /\ last.req.adults.v <= 0)
     => (last.code # 200 /\ Stored = {} /\ contacts = 0)
  /\ last.op = "create"
     => \A b \in Stored : bookings[b].adults >= 1 /\ bookings[b].children >= 0

\* C22: every stored booking has a touristId and exactly one of providerId and
\* productType, whichever creation endpoint stored it.
C22_ExactlyOneReference ==
  \A b \in Stored :
    /\ bookings[b].touristId # NoStr
    /\ (bookings[b].providerId # NoStr) # (bookings[b].productType # NoStr)

\* An admin request naming both a provider and a product was accepted.
C22_Witness ==
  /\ last.op = "adminCreate" /\ last.code = 200
  /\ last.req.providerId # NoStr /\ last.req.productType # NoStr
  /\ last.id \in Stored

\* This step serves the admin delete logged in last', and the booking was found.
DeleteStep ==
  /\ last'.op = "delete" /\ last'.code = 200
  /\ AdminDelete(last'.user, last'.id)

\* C23: an admin delete removes the named booking and nothing else: the other
\* bookings, every review and the contact submissions are left as they were,
\* and a listing never shows a booking that is no longer stored.
C23_DeleteRemovesOnlyBooking ==
  [][/\ DeleteStep =>
          /\ bookings' = [b \in Stored \ {last'.id} |-> bookings[b]]
          /\ last'.id \in Stored
          /\ reviews' = reviews
          /\ contacts' = contacts
     /\ (last'.op = "myBookings" /\ last'.code = 200) =>
          {r.id : r \in last'.body} \subseteq DOMAIN bookings']_vars

\* The booking a stored service review was admitted on has been deleted, and
\* another booking is still stored.
C23_Witness ==
  /\ last.op = "delete" /\ last.code = 200
  /\ last.id \notin Stored
  /\ Stored # {}
  /\ contacts >= 2
  /\ \E i \in 1..Len(reviews) :
       /\ reviews[i].reviewType = "service"
       /\ ~HasBooking(reviews[i].reviewerId, "providerId", reviews[i].targetId)

\* C24: a review is stored approved exactly when its kind is service or
\* product; afterwards its approved flag changes only from false to true, and
\* only by the admin approve operation naming it.
C24_ApprovalByKindOrAdmin ==
  [][\A i \in 1..Len(reviews') :
       IF i > Len(reviews)
       THEN reviews'[i].approved = (reviews'[i].reviewType \in {"service", "product"})
       ELSE reviews'[i].approved # reviews[i].approved =>
              /\ reviews'[i].approved
              /\ last'.op = "approveReview" /\ last'.code = 200
              /\ last'.user.role = "admin"
              /\ last'.id = ReviewIdNames[i]]_vars

\* An admin has approved a stored tourist-kind review.
C24_Witness ==
  /\ last.op = "approveReview" /\ last.code = 200
  /\ \E i \in ReviewAt(last.id) :
       reviews[i].reviewType = "tourist" /\ reviews[i].approved

\* C25: every review a public review listing returns is approved, its reviewer
\* resolves to a stored tourist and, for a service review, its target to a
\* stored provider; the listing of all reviews always succeeds.
C25_ListedReviewsResolve ==
  /\ last.op = "listAllReviews" => last.code = 200
  /\ (last.op \in {"listAllReviews", "listServiceReviews"} /\ last.code = 200) =>
       \A r \in last.body :
         /\ \A i \in ReviewAt(r.id) : reviews[i].approved
         /\ TouristFound(r.reviewerId)
         /\ r.reviewType = "service" => ProviderFound(r.targetId)

\* C26: create-intent asked by the owner of a pending booking, for the stripe
\* or the payhere method, answers 200 with payment data, whether the booking
\* names a provider or a curated product.
C26_IntentForEveryPending ==
  (/\ last.op = "createIntent"
   /\ last.user.role = "tourist"
   /\ last.req.paymentMethod \in {"stripe", "payhere"}
   /\ last.id \in Stored
   /\ bookings[last.id].status = "pending"
   /\ bookings[last.id].touristId = last.user.id)
  => (last.code = 200 /\ last.body # {})

\* C27: a creation request (tourist provider-based, tourist product, admin)
\* answered 400, 403 or 404 stores neither a booking nor a contact submission.
C27_RefusalStoresNothing ==
  [][(/\ last' # last
      /\ last'.op \in {"create", "createProduct", "adminCreate"}
      /\ last'.code \in {400, 403, 404})
     => (bookings' = bookings /\ contacts' = contacts)]_vars

\* C28: a payment callback never adds a booking, and a verified success
\* callback whose booking id names no stored booking leaves the bookings as
\* they were.
C28_CallbacksAddNoBooking ==
  [][(PayhereStep \/ WebhookStep) =>
       /\ DOMAIN bookings' = Stored
       /\ last'.id \notin Stored => bookings' = bookings]_vars

\* A verified success callback named a booking that had been deleted.
C28_Witness ==
  /\ LastIsConfirm
  /\ last.op \in {"payhere", "webhook"}
  /\ last.code = 200
  /\ last.id \in DOMAIN created
  /\ last.id \notin Stored
  /\ Stored # {}

\* C29: when the booking is deleted between approve's read and its save, the
\* save stores nothing and the booking stays absent: a booking that was
\* deleted never comes back.
C29_ApproveNeverRecreates ==
  [][/\ (approve.pc = "loaded" /\ approve'.pc # "loaded" /\ approve.id \notin Stored)
          => bookings' = bookings
     /\ \A b \in DOMAIN created \ Stored : b \notin DOMAIN bookings']_vars

\* Approve read the booking, it was deleted, and approve's save then failed.
C29_Witness ==
  /\ last.op = "approve" /\ last.user.role = "admin"
  /\ last.found = "pending"
  /\ last.dbOk
  /\ last.code = 500
  /\ last.id \in DOMAIN created
  /\ last.id \notin Stored

\* C30: neither login nor provider signup answers with a token for a provider
\* account whose approved flag is false.
C30_NoTokenBeforeApproval ==
  last.op \in {"login", "providerSignup"} =>
    \A token \in last.body :
      token.payload.role = "provider" => users[token.payload.id].approved

====
